---- MODULE Spec2Model ----
(***************************************************************************)
(* Model of two kernel data structures of the repository:                  *)
(*   - the TCP listen table (modules/axnet/src/listen_table.rs): one slot  *)
(*     per port, each an Option<Box<ListenTableEntry>> behind its own      *)
(*     mutex, holding the SYN queue of socket handles;                     *)
(*   - the per-core sleep timers (modules/axtask/src/timers.rs): one       *)
(*     priority queue per core keyed by task identity.                     *)
(* Every public function is one action: each takes the port mutex (or runs *)
(* within the per-core region) for its whole body, so its body is atomic   *)
(* with respect to the other actions on the same slot or core.             *)
(***************************************************************************)
EXTENDS Integers, Sequences, FiniteSets, TLC

(***************************************************************************)
(* Bounds of the model.                                                    *)
(***************************************************************************)
\* Ports modelled out of PORT_NUM = 65536 slots; port 0 is never listened on
\* (assert_ne!(port, 0)), so the modelled ports are 1..NumPorts.
NumPorts == 2
\* Distinct local IP addresses.
NumAddrs == 2
\* Capacity of a SYN queue (consts::LISTEN_QUEUE_SIZE, a build constant that
\* is imported at listen_table.rs:14; the model uses a small value).
LISTEN_QUEUE_SIZE == 3
\* Slots of the socket set that the model lets sockets.add() use.
MaxHandles == 4
\* Ports listened on at the same time.
MaxListeners == 1

\* CPU cores, each with its own TIMER_LIST.
NumCores == 2
\* Tasks (distinct Arc<AxTask> objects).
NumTasks == 2
\* The wall clock and the deadlines range over 0..MaxTime.
MaxTime == 2

\* Threads that call into the listen table at the same time.
NumThreads == 2
\* Calls into SOCKET_SET that one listen-table call makes under the port lock.
MaxCalls == 2
\* Sockets in the socket set when every port may be listened on.
WideHandles == 2

Ports == 1..NumPorts
Addrs == 1..NumAddrs
Handles == 1..MaxHandles
Cores == 1..NumCores
Tasks == 1..NumTasks
Times == 0..MaxTime
Threads == 1..NumThreads

(***************************************************************************)
(* Option<T> is a sequence of length 0 (None) or 1 (Some(x)).              *)
(***************************************************************************)
None == <<>>
Some(x) == <<x>>

\* IpListenEndpoint { addr: Option<IpAddress>, port }
ListenEndpoints == [addr : {None} \cup {Some(a) : a \in Addrs}, port : Ports]
\* IpEndpoint { addr, port }: the local endpoints packets are addressed to.
IpEndpoints == [addr : Addrs, port : Ports]

\* smoltcp tcp::State, the states the listen table distinguishes and the
\* ones a passively opened socket goes through before it is accepted.
States == {"Listen", "SynReceived", "Established", "Closed"}

\* A slot of the socket set that holds no socket.
FreeSlot == [state |-> "Free", tuple |-> None]

VARIABLES
    tcp,        \* ListenTable.tcp: port -> Option<ListenTableEntry>
    sockets,    \* SOCKET_SET: handle -> socket (state, address tuple) or FreeSlot
    accepted,   \* handles that accept() has handed to a caller
    consumed,   \* handles for which accept() has returned ECONNRESET
    last,       \* the last call (see Call)
    TIMER_LIST, \* per core: the priority queue, a set of <<task, deadline>>
    wall,       \* wall_time()
    superseded, \* per core and task: the earlier deadline the latest arm replaced
    tlast,      \* the last timer call: operation, core, task, deadline, wakeups
    disarmed,   \* tasks for which clear_alarm_wakeup was called after their last arm
    thread,     \* per thread: the listen-table call it is in and its position
    tcp_lock,   \* per port: the thread holding the mutex of tcp[port], or 0
    socket_set_lock \* the thread with access to the SocketSet of SOCKET_SET, or 0

netvars == <<tcp, sockets, accepted, consumed, last>>
timervars == <<TIMER_LIST, wall, superseded, tlast, disarmed>>
lockvars == <<thread, tcp_lock, socket_set_lock>>
vars == <<tcp, sockets, accepted, consumed, last, TIMER_LIST, wall, superseded, tlast,
          disarmed, thread, tcp_lock, socket_set_lock>>

(***************************************************************************)
(* The socket set (smoltcp SocketSet behind SOCKET_SET).                   *)
(***************************************************************************)
FreeHandles(set) == {h \in Handles : set[h].state = "Free"}

Min(S) == CHOOSE x \in S : \A y \in S : x <= y

\* sockets.add(socket): the socket goes to the first free slot, whose index
\* is the handle.
SocketSetAddHandle(set) == Min(FreeHandles(set))

SocketSetAdd(set, socket) == [set EXCEPT ![SocketSetAddHandle(set)] = socket]

\* SOCKET_SET.remove(handle)
SocketSetRemove(set, handle) == [set EXCEPT ![handle] = FreeSlot]

\* tcp::Socket::new(..) followed by socket.listen(endpoint): state Listen,
\* no address tuple yet.
NewListenSocket == [state |-> "Listen", tuple |-> None]

\* Faulty variant of is_connected: only Listen counts as awaiting the handshake.
is_connected_listen_only(handle) == sockets[handle].state # "Listen"

is_connected(handle) == sockets[handle].state \notin {"Listen", "SynReceived"}

is_closed(handle) == sockets[handle].state = "Closed"

\* (local_endpoint().unwrap(), remote_endpoint().unwrap())
get_addr_tuple(handle) == sockets[handle].tuple[1]

(***************************************************************************)
(* ListenTableEntry                                                        *)
(***************************************************************************)
ListenTableEntry_new(listen_endpoint) ==
    [listen_endpoint |-> listen_endpoint, syn_queue |-> <<>>]

\* Faulty variant of ListenTableEntry::can_accept: the bound address is ignored.
entry_can_accept_any(entry, dst) == TRUE

entry_can_accept(entry, dst) ==
    IF entry.listen_endpoint.addr = None
    THEN TRUE
    ELSE entry.listen_endpoint.addr[1] = dst

RECURSIVE DropQueue(_, _)
\* Drop for ListenTableEntry: SOCKET_SET.remove(handle) for every queued handle.
DropQueue(set, queue) ==
    IF queue = <<>> THEN set
    ELSE DropQueue(SocketSetRemove(set, Head(queue)), Tail(queue))

\* Faulty variant of the drop: only the handle at the front is removed.
DropSlot_front_only(set, slot) ==
    IF slot = None \/ slot[1].syn_queue = <<>> THEN set
    ELSE SocketSetRemove(set, Head(slot[1].syn_queue))

\* Dropping an Option<Box<ListenTableEntry>>: nothing for None.
DropSlot(set, slot) ==
    IF slot = None THEN set ELSE DropQueue(set, slot[1].syn_queue)

(***************************************************************************)
(* VecDeque helpers (1-based positions; Rust index i is position i + 1).  *)
(***************************************************************************)
\* iter().enumerate().find_map(..): the first position whose socket is
\* connected, 0 when there is none.
\* Faulty variant of the scan: the last connected position, not the first.
find_connected_last(queue) ==
    LET hits == {i \in 1..Len(queue) : is_connected(queue[i])}
    IN  IF hits = {} THEN 0 ELSE CHOOSE x \in hits : \A y \in hits : x >= y

find_connected(queue) ==
    LET hits == {i \in 1..Len(queue) : is_connected(queue[i])}
    IN  IF hits = {} THEN 0 ELSE Min(hits)

\* VecDeque::swap_remove_front(idx): the element at idx is swapped with the
\* front element, then the front is popped.
\* Faulty variant: VecDeque::swap_remove_back, the element at idx is swapped
\* with the back element, then the back is popped.
swap_remove_back(queue, idx) ==
    [i \in 1..(Len(queue) - 1) |-> IF i = idx THEN queue[Len(queue)] ELSE queue[i]]

\* Faulty variant: pop_front, whatever idx is.
pop_front_only(queue, idx) == Tail(queue)

swap_remove_front(queue, idx) ==
    [i \in 1..(Len(queue) - 1) |-> IF i = idx - 1 THEN queue[1] ELSE queue[i + 1]]

Range(s) == {s[i] : i \in 1..Len(s)}

\* `last` describes the last call: the operation, its result (for
\* incoming_tcp_packet, which returns nothing, the return it left by), the
\* handle and address tuple an accept returned, the queue position accept
\* chose (the index its slow-enumeration warning logs, plus one) and the
\* handles the call passed to SOCKET_SET.remove.
Call(op, res) ==
    [op |-> op, res |-> res, handle |-> 0, tuple |-> None, idx |-> 0,
     removed |-> <<>>]

\* What `last` holds after a step of the environment.
Quiet == Call("none", "")

(***************************************************************************)
(* ListenTable                                                             *)
(***************************************************************************)
\* ListenTable::new(): every slot is Arc::default(), a mutex holding None.
NetInit ==
    /\ tcp = [p \in Ports |-> None]
    /\ sockets = [h \in Handles |-> FreeSlot]
    /\ accepted = {}
    /\ consumed = {}
    /\ last = Quiet

can_listen(port) == tcp[port] = None

\* Faulty variant of listen: the slot is overwritten without the is_none test.
listen_overwrite(listen_endpoint) ==
    /\ UNCHANGED <<timervars, lockvars>>
    /\ tcp' = [tcp EXCEPT ![listen_endpoint.port] =
                   Some(ListenTableEntry_new(listen_endpoint))]
    /\ last' = Call("listen", "Ok")
    /\ UNCHANGED <<sockets, accepted, consumed>>

listen(listen_endpoint) ==
    LET port == listen_endpoint.port IN
    /\ UNCHANGED <<timervars, lockvars>>
    /\ IF tcp[port] = None
       THEN /\ tcp' = [tcp EXCEPT ![port] =
                            Some(ListenTableEntry_new(listen_endpoint))]
            /\ last' = Call("listen", "Ok")
            /\ UNCHANGED <<sockets, accepted, consumed>>
       ELSE /\ last' = Call("listen", "EADDRINUSE")
            /\ UNCHANGED <<tcp, sockets, accepted, consumed>>

\* Faulty variant of unlisten: every slot of the table is cleared.
unlisten_every_port(port) ==
    /\ tcp' = [p \in Ports |-> None]
    /\ sockets' = [h \in Handles |->
           IF \E p \in Ports : tcp[p] # None /\
                 \E i \in 1..Len(tcp[p][1].syn_queue) : tcp[p][1].syn_queue[i] = h
           THEN FreeSlot ELSE sockets[h]]
    /\ last' = [Call("unlisten", "Ok") EXCEPT
                    !.removed = IF tcp[port] = None THEN <<>>
                                ELSE tcp[port][1].syn_queue]
    /\ UNCHANGED <<accepted, consumed>>
    /\ UNCHANGED <<timervars, lockvars>>

unlisten(port) ==
    /\ tcp' = [tcp EXCEPT ![port] = None]
    /\ sockets' = DropSlot(sockets, tcp[port])
    /\ last' = [Call("unlisten", "Ok") EXCEPT
                    !.removed = IF tcp[port] = None THEN <<>>
                                ELSE tcp[port][1].syn_queue]
    /\ UNCHANGED <<accepted, consumed>>
    /\ UNCHANGED <<timervars, lockvars>>

\* The result of ListenTable::can_accept.
can_accept_result(port) ==
    IF tcp[port] # None
    THEN IF \E i \in 1..Len(tcp[port][1].syn_queue) :
                is_connected(tcp[port][1].syn_queue[i])
         THEN "true" ELSE "false"
    ELSE "EINVAL"

can_accept(port) ==
    /\ last' = Call("can_accept", can_accept_result(port))
    /\ UNCHANGED <<tcp, sockets, accepted, consumed>>
    /\ UNCHANGED <<timervars, lockvars>>

accept(port) ==
    /\ UNCHANGED <<timervars, lockvars>>
    /\ IF tcp[port] = None
       THEN /\ last' = Call("accept", "EINVAL")
            /\ UNCHANGED <<tcp, sockets, accepted, consumed>>
       ELSE
         LET syn_queue == tcp[port][1].syn_queue
             idx == find_connected(syn_queue)
         IN  IF idx = 0
             THEN /\ last' = Call("accept", "EAGAIN")
                  /\ UNCHANGED <<tcp, sockets, accepted, consumed>>
             ELSE
               LET handle == syn_queue[idx] IN
               /\ tcp' = [tcp EXCEPT ![port][1].syn_queue =
                                         swap_remove_front(syn_queue, idx)]
               /\ IF is_closed(handle)
                  THEN /\ last' = [Call("accept", "ECONNRESET") EXCEPT
                                       !.idx = idx]
                       /\ consumed' = consumed \cup {handle}
                       /\ UNCHANGED accepted
                  ELSE /\ last' = [Call("accept", "Ok") EXCEPT
                                       !.handle = handle,
                                       !.tuple = Some(get_addr_tuple(handle)),
                                       !.idx = idx]
                       /\ accepted' = accepted \cup {handle}
                       /\ UNCHANGED consumed
               /\ UNCHANGED sockets

\* Faulty variant of the capacity test: > in place of >=.
syn_queue_full_off_by_one(entry) == Len(entry.syn_queue) > LISTEN_QUEUE_SIZE

\* entry.syn_queue.len() >= LISTEN_QUEUE_SIZE
syn_queue_full(entry) == Len(entry.syn_queue) >= LISTEN_QUEUE_SIZE

\* `src` is only logged; socket.listen(entry.listen_endpoint) is Ok for a
\* fresh socket and a nonzero port.
\* Faulty variant of push_back: the handle is put at the front.
push_front(queue, handle) == <<handle>> \o queue

\* VecDeque::push_back
push_back(queue, handle) == Append(queue, handle)

incoming_tcp_packet(dst) ==
    /\ UNCHANGED <<accepted, consumed>>
    /\ UNCHANGED <<timervars, lockvars>>
    /\ IF tcp[dst.port] # None
       THEN LET entry == tcp[dst.port][1] IN
            IF ~entry_can_accept(entry, dst.addr)
            THEN /\ last' = Call("incoming_tcp_packet", "filtered")
                 /\ UNCHANGED <<tcp, sockets>>
            ELSE IF syn_queue_full(entry)
            THEN /\ last' = Call("incoming_tcp_packet", "overflow")
                 /\ UNCHANGED <<tcp, sockets>>
            ELSE /\ last' = Call("incoming_tcp_packet", "queued")
                 /\ sockets' = SocketSetAdd(sockets, NewListenSocket)
                 /\ tcp' = [tcp EXCEPT ![dst.port][1].syn_queue =
                               push_back(entry.syn_queue, SocketSetAddHandle(sockets))]
       ELSE /\ last' = Call("incoming_tcp_packet", "none")
            /\ UNCHANGED <<tcp, sockets>>

\* The model lets MaxListeners ports be listened on at a time: a listen()
\* that would occupy one more slot is not issued.
ListenCall ==
    \E ep \in ListenEndpoints :
        /\ \/ tcp[ep.port] # None
           \/ Cardinality({p \in Ports : tcp[p] # None}) < MaxListeners
        /\ listen(ep)

\* Whether the packet reaches sockets.add().
Admits(dst) ==
    /\ tcp[dst.port] # None
    /\ entry_can_accept(tcp[dst.port][1], dst.addr)
    /\ ~syn_queue_full(tcp[dst.port][1])

\* The model has MaxHandles slots in the socket set (the real set grows):
\* a packet that would need one more is not delivered.
IncomingPacket ==
    \E dst \in IpEndpoints :
        /\ Admits(dst) => FreeHandles(sockets) # {}
        /\ incoming_tcp_packet(dst)

(***************************************************************************)
(* The environment: the protocol stack moves a socket through its states.  *)
(* A socket handed to a caller by accept() stays in the socket set: the     *)
(* model does not follow what its owner does with it.                      *)
(***************************************************************************)
PortOf(handle) ==
    {p \in Ports : tcp[p] # None /\
        \E i \in 1..Len(tcp[p][1].syn_queue) : tcp[p][1].syn_queue[i] = handle}

\* The address tuple a handshake gives socket `handle` listening on `port`.
\* The listen table only passes the tuple on, so one peer per socket is
\* modelled: the peer of socket h is remote endpoint h.
TupleOf(handle, port) == [local_port |-> port, remote |-> handle]

\* Listen -> SynReceived on a SYN (the tuple is set), SynReceived ->
\* Established on the ACK, SynReceived -> Listen on a RST, Established ->
\* Closed on a RST (the tuple is cleared). Only sockets still in a SYN queue
\* are followed: the listen table never reads a socket once it left the queue.
StackStep(handle) ==
    /\ PortOf(handle) # {}
    /\ last' = Quiet
    /\ UNCHANGED <<tcp, accepted, consumed>>
    /\ UNCHANGED <<timervars, lockvars>>
    /\ \/ /\ sockets[handle].state = "Listen"
          /\ \E p \in PortOf(handle) :
                sockets' = [sockets EXCEPT ![handle] =
                    [state |-> "SynReceived", tuple |-> Some(TupleOf(handle, p))]]
       \/ /\ sockets[handle].state = "SynReceived"
          /\ sockets' = [sockets EXCEPT ![handle].state = "Established"]
       \/ /\ sockets[handle].state = "SynReceived"
          /\ sockets' = [sockets EXCEPT ![handle] = NewListenSocket]
       \/ /\ sockets[handle].state = "Established"
          /\ sockets' = [sockets EXCEPT ![handle] =
                            [state |-> "Closed", tuple |-> None]]

\* The same calls with every port free to be listened on and, to keep the
\* state space small, at most WideHandles sockets in the socket set.
WideIncomingPacket ==
    \E dst \in IpEndpoints :
        /\ Admits(dst) =>
              Cardinality(FreeHandles(sockets)) > MaxHandles - WideHandles
        /\ incoming_tcp_packet(dst)

WideNext ==
    \/ \E ep \in ListenEndpoints : listen(ep)
    \/ \E p \in Ports : unlisten(p)
    \/ \E p \in Ports : can_accept(p)
    \/ \E p \in Ports : accept(p)
    \/ WideIncomingPacket
    \/ \E h \in Handles : StackStep(h)

NetNext ==
    \/ ListenCall
    \/ \E p \in Ports : unlisten(p)
    \/ \E p \in Ports : can_accept(p)
    \/ \E p \in Ports : accept(p)
    \/ IncomingPacket
    \/ \E h \in Handles : StackStep(h)

(***************************************************************************)
(* Per-core timers (modules/axtask/src/timers.rs).                         *)
(* PriorityQueue<TaskPtr, Reverse<TimeValue>>: a map from item to          *)
(* priority, modelled as a set of <<task, deadline>> pairs; TaskPtr is     *)
(* equal and hashed by Arc pointer, so the item is the task's identity.    *)
(***************************************************************************)
\* PriorityQueue::push(item, priority): an item already in the queue gets
\* the new priority, its old one is returned (and dropped by the caller).
\* Faulty variant of push: a second entry is added for an item already queued.
pq_push_duplicate(list, task, deadline) == list \cup {<<task, deadline>>}

\* Faulty variant of push (PriorityQueue::push_increase): the priority of
\* an item already queued only changes to a greater one, that is, to an
\* earlier deadline.
pq_push_increase(list, task, deadline) ==
    IF \E e \in list : e[1] = task /\ e[2] <= deadline
    THEN list
    ELSE {e \in list : e[1] # task} \cup {<<task, deadline>>}

pq_push(list, task, deadline) ==
    {e \in list : e[1] # task} \cup {<<task, deadline>>}

\* Faulty variant of remove: the whole queue is emptied.
pq_remove_clear(list, task) == {}

\* PriorityQueue::remove(&item)
pq_remove(list, task) == {e \in list : e[1] # task}

\* Faulty variant of the queue's order: the priority is the deadline itself
\* (no Reverse), so the top is an entry of greatest deadline.
pq_top_latest(list) == {e \in list : \A f \in list : f[2] <= e[2]}

\* The entries peek() can return: the greatest priority Reverse(deadline) is
\* the least deadline; the order among equal deadlines is the heap's.
pq_top(list) == {e \in list : \A f \in list : e[2] <= f[2]}

\* Faulty variant of the predicate: the comparison is turned round.
expired_inverted(deadline, now) == now < deadline

\* The predicate of pop_if in check_events.
expired(deadline, now) == deadline < now

RECURSIVE drain(_, _)
\* The loop of check_events: the sequences of entries it can pop, in order.
\* wall_time() is read at every iteration; the clock does not go back, so
\* the entries popped are those a single reading at the loop's exit gives.
drain(list, now) ==
    IF list = {} THEN {<<>>}
    ELSE UNION {IF expired(e[2], now)
                THEN {<<e>> \o s : s \in drain(list \ {e}, now)}
                ELSE {<<>>} : e \in pq_top(list)}

TQuiet == [op |-> "none", core |-> 0, task |-> 0, deadline |-> 0, woken |-> <<>>]

\* percpu_static TIMER_LIST: an empty queue on every core.
TimerInit ==
    /\ TIMER_LIST = [c \in Cores |-> {}]
    /\ wall = 0
    /\ superseded = [c \in Cores |-> [t \in Tasks |-> None]]
    /\ tlast = TQuiet
    /\ disarmed = {}

\* The deadline `task` is registered with in `list`, as an Option.
deadline_of(list, task) ==
    IF \E e \in list : e[1] = task
    THEN Some((CHOOSE e \in list : e[1] = task)[2])
    ELSE None

\* set_alarm_wakeup(deadline, task) called on core `core`.
set_alarm_wakeup(core, deadline, task) ==
    /\ TIMER_LIST' = [TIMER_LIST EXCEPT ![core] = pq_push(@, task, deadline)]
    /\ superseded' = [superseded EXCEPT ![core][task] =
           LET old == deadline_of(TIMER_LIST[core], task)
           IN  IF old # None /\ old[1] < deadline THEN old ELSE None]
    /\ tlast' = [op |-> "set_alarm_wakeup", core |-> core, task |-> task,
                 deadline |-> deadline, woken |-> <<>>]
    /\ disarmed' = disarmed \ {task}
    /\ UNCHANGED wall
    /\ UNCHANGED <<netvars, lockvars>>

\* Faulty variant of clear_alarm_wakeup: the task is removed from the queue
\* of every core.
clear_alarm_wakeup_every_core(core, task) ==
    /\ TIMER_LIST' = [c \in Cores |-> pq_remove(TIMER_LIST[c], task)]
    /\ superseded' = [c \in Cores |-> [superseded[c] EXCEPT ![task] = None]]
    /\ tlast' = [op |-> "clear_alarm_wakeup", core |-> core, task |-> task,
                 deadline |-> 0, woken |-> <<>>]
    /\ disarmed' = disarmed \cup {task}
    /\ UNCHANGED wall
    /\ UNCHANGED <<netvars, lockvars>>

\* clear_alarm_wakeup(task) called on core `core`.
clear_alarm_wakeup(core, task) ==
    /\ TIMER_LIST' = [TIMER_LIST EXCEPT ![core] = pq_remove(@, task)]
    /\ superseded' = [superseded EXCEPT ![core][task] = None]
    /\ tlast' = [op |-> "clear_alarm_wakeup", core |-> core, task |-> task,
                 deadline |-> 0, woken |-> <<>>]
    /\ disarmed' = disarmed \cup {task}
    /\ UNCHANGED wall
    /\ UNCHANGED <<netvars, lockvars>>

\* check_events() on core `core`: every popped task is unblocked with
\* resched = true; tlast.woken lists the unblock_task calls in order.
check_events(core) ==
    \E popped \in drain(TIMER_LIST[core], wall) :
        /\ TIMER_LIST' = [TIMER_LIST EXCEPT ![core] = @ \ Range(popped)]
        /\ superseded' = [superseded EXCEPT ![core] =
               [t \in Tasks |-> IF \E i \in 1..Len(popped) : popped[i][1] = t
                                THEN None ELSE @[t]]]
        /\ tlast' = [op |-> "check_events", core |-> core, task |-> 0,
                     deadline |-> wall, woken |-> popped]
        /\ UNCHANGED <<wall, disarmed>>
        /\ UNCHANGED <<netvars, lockvars>>

\* The wall clock advances.
Tick ==
    /\ wall < MaxTime
    /\ wall' = wall + 1
    /\ tlast' = TQuiet
    /\ UNCHANGED <<TIMER_LIST, superseded, disarmed>>
    /\ UNCHANGED <<netvars, lockvars>>

TimerNext ==
    \/ \E c \in Cores, d \in Times, t \in Tasks : set_alarm_wakeup(c, d, t)
    \/ \E c \in Cores, t \in Tasks : clear_alarm_wakeup(c, t)
    \/ \E c \in Cores : check_events(c)
    \/ Tick

(***************************************************************************)
(* The locks of the listen table.  Every function of ListenTable locks the *)
(* mutex of tcp[port] for its whole body; is_connected, is_closed,         *)
(* get_addr_tuple and the Drop of an entry call SOCKET_SET under that      *)
(* lock.  incoming_tcp_packet runs inside the network poll, which owns the *)
(* SocketSet (&mut) while it delivers packets.                             *)
(***************************************************************************)
Idle == [op |-> "none", port |-> 0, pc |-> "idle", calls |-> 0]

TableOps == {"listen", "unlisten", "can_accept", "accept"}

LockInit ==
    /\ thread = [th \in Threads |-> Idle]
    /\ tcp_lock = [p \in Ports |-> 0]
    /\ socket_set_lock = 0

\* A thread enters listen, unlisten, can_accept or accept for `port`; `n` is
\* the number of SOCKET_SET calls the body will make (none in listen, one
\* remove per queued handle in unlisten, one with_socket per is_connected,
\* is_closed and get_addr_tuple in can_accept and accept).
table_call(th, op, port, n) ==
    /\ thread[th].pc = "idle"
    /\ op = "listen" => n = 0
    /\ thread' = [thread EXCEPT ![th] =
           [op |-> op, port |-> port, pc |-> "lock_port", calls |-> n]]
    /\ UNCHANGED <<tcp_lock, socket_set_lock>>
    /\ UNCHANGED <<netvars, timervars>>

\* A thread enters the network poll with a packet for `port`: it first
\* takes the SocketSet, then calls incoming_tcp_packet(src, dst, sockets).
poll_call(th, port) ==
    /\ thread[th].pc = "idle"
    /\ thread' = [thread EXCEPT ![th] =
           [op |-> "incoming_tcp_packet", port |-> port,
            pc |-> "lock_socket_set", calls |-> 0]]
    /\ UNCHANGED <<tcp_lock, socket_set_lock>>
    /\ UNCHANGED <<netvars, timervars>>

\* self.tcp[port].lock(): blocks while another thread holds the mutex.
port_lock(th) ==
    /\ thread[th].pc = "lock_port"
    /\ tcp_lock[thread[th].port] = 0
    /\ tcp_lock' = [tcp_lock EXCEPT ![thread[th].port] = th]
    /\ thread' = [thread EXCEPT ![th].pc = "in_port"]
    /\ UNCHANGED socket_set_lock
    /\ UNCHANGED <<netvars, timervars>>

\* Under the port lock: the next is_connected / is_closed / get_addr_tuple
\* / SOCKET_SET.remove call asks for the SocketSet.
socket_set_call(th) ==
    /\ thread[th].pc = "in_port"
    /\ thread[th].op \in TableOps
    /\ thread[th].calls > 0
    /\ thread' = [thread EXCEPT ![th].pc = "lock_socket_set"]
    /\ UNCHANGED <<tcp_lock, socket_set_lock>>
    /\ UNCHANGED <<netvars, timervars>>

\* Access to the SocketSet is granted: to the poll (which then delivers the
\* packet) or to a with_socket / remove call.
socket_set_acquire(th) ==
    /\ thread[th].pc = "lock_socket_set"
    /\ socket_set_lock = 0
    /\ socket_set_lock' = th
    /\ thread' = [thread EXCEPT ![th].pc =
           IF thread[th].op = "incoming_tcp_packet" THEN "lock_port"
           ELSE "with_socket"]
    /\ UNCHANGED tcp_lock
    /\ UNCHANGED <<netvars, timervars>>

\* The with_socket / remove call returns, or the poll ends.
socket_set_release(th) ==
    /\ socket_set_lock = th
    /\ \/ /\ thread[th].pc = "with_socket"
          /\ thread' = [thread EXCEPT ![th].pc = "in_port",
                                       ![th].calls = @ - 1]
       \/ /\ thread[th].pc = "unlock_socket_set"
          /\ thread' = [thread EXCEPT ![th] = Idle]
    /\ socket_set_lock' = 0
    /\ UNCHANGED tcp_lock
    /\ UNCHANGED <<netvars, timervars>>

\* The guard of tcp[port] is dropped at the end of the function.
port_unlock(th) ==
    /\ thread[th].pc = "in_port"
    /\ tcp_lock[thread[th].port] = th
    /\ tcp_lock' = [tcp_lock EXCEPT ![thread[th].port] = 0]
    /\ \/ /\ thread[th].op \in TableOps
          /\ thread[th].calls = 0
          /\ thread' = [thread EXCEPT ![th] = Idle]
       \/ /\ thread[th].op = "incoming_tcp_packet"
          /\ thread' = [thread EXCEPT ![th].pc = "unlock_socket_set"]
    /\ UNCHANGED socket_set_lock
    /\ UNCHANGED <<netvars, timervars>>

LockNext ==
    \/ \E th \in Threads, op \in TableOps, p \in Ports, n \in 0..MaxCalls :
          table_call(th, op, p, n)
    \/ \E th \in Threads, p \in Ports : poll_call(th, p)
    \/ \E th \in Threads : port_lock(th)
    \/ \E th \in Threads : socket_set_call(th)
    \/ \E th \in Threads : socket_set_acquire(th)
    \/ \E th \in Threads : socket_set_release(th)
    \/ \E th \in Threads : port_unlock(th)

Init == NetInit /\ TimerInit /\ LockInit

\* The listen table alone.
Spec == Init /\ [][NetNext]_vars

\* The listen table with listeners on several ports at a time.
WideSpec == Init /\ [][WideNext]_vars

\* The timers alone.
TimerSpec == Init /\ [][TimerNext]_vars

\* The timers with a wall clock that keeps advancing (up to the model's
\* horizon) and a timer tick that keeps calling check_events on every core.
TimerLiveSpec ==
    /\ Init
    /\ [][TimerNext]_vars
    /\ WF_vars(Tick)
    /\ \A c \in Cores : WF_vars(check_events(c))

\* The locking of concurrent listen-table calls alone.
LockSpec == Init /\ [][LockNext]_vars

(***************************************************************************)
(* Properties of the listen table.                                         *)
(***************************************************************************)
\* The SYN queue of a port, empty when nothing listens on it.
Queue(p) == IF tcp[p] = None THEN <<>> ELSE tcp[p][1].syn_queue

QueueSet(p) == Range(Queue(p))

\* The handles the socket set holds a socket for.
Registered == {h \in Handles : sockets[h].state # "Free"}

\* The socket has not left the states Listen / SynReceived.
Awaiting(h) == sockets[h].state \in {"Listen", "SynReceived"}

\* The positions of a queue whose socket has progressed past the handshake.
Progressed(q) == {i \in 1..Len(q) : ~Awaiting(q[i])}

\* C1: listen(p) on an occupied slot fails with EADDRINUSE and leaves the
\* entry (endpoint and backlog) and the socket set unchanged; a slot never
\* holds more than one entry, and only listen(p) fills slot p; unlisten(p)
\* empties the slot, and listen on an empty slot succeeds and installs an
\* entry for the given endpoint with an empty backlog.
C1_ListenExclusive ==
    /\ [](\A p \in Ports : Len(tcp[p]) <= 1)
    /\ [][\A ep \in ListenEndpoints : listen(ep) =>
            /\ tcp[ep.port] # None =>
                  /\ last'.res = "EADDRINUSE"
                  /\ tcp' = tcp
                  /\ sockets' = sockets
            /\ tcp[ep.port] = None =>
                  /\ last'.res = "Ok"
                  /\ tcp'[ep.port] = <<[listen_endpoint |-> ep, syn_queue |-> <<>>]>>
                  /\ \A q \in Ports \ {ep.port} : tcp'[q] = tcp[q]]_vars
    /\ [][\A p \in Ports : unlisten(p) => tcp'[p] = <<>>]_vars
    /\ [][\A p \in Ports : (tcp[p] = <<>> /\ tcp'[p] # <<>>) =>
            \E ep \in ListenEndpoints : ep.port = p /\ listen(ep)]_vars

\* A second listen was refused while the entry held queued handles.
C1_Witness ==
    /\ last.op = "listen"
    /\ last.res = "EADDRINUSE"
    /\ \E p \in Ports : Len(Queue(p)) >= 2

\* C2: no backlog is ever longer than LISTEN_QUEUE_SIZE, and a packet for a
\* port whose backlog holds LISTEN_QUEUE_SIZE handles changes neither the
\* backlog nor the socket set.
C2_BacklogBounded ==
    /\ [](\A p \in Ports : Len(Queue(p)) <= LISTEN_QUEUE_SIZE)
    /\ [][\A dst \in IpEndpoints :
            (incoming_tcp_packet(dst) /\ Len(Queue(dst.port)) >= LISTEN_QUEUE_SIZE)
                => (tcp' = tcp /\ sockets' = sockets)]_vars

\* A packet was dropped on a full backlog although the socket set had room.
C2_Witness ==
    /\ last.op = "incoming_tcp_packet"
    /\ last.res = "overflow"
    /\ \E p \in Ports : Len(Queue(p)) = LISTEN_QUEUE_SIZE
    /\ Registered # Handles

\* C3: unlisten(p) on an occupied slot removes exactly the queued handles
\* from the socket set and leaves the slot empty (can_listen(p) holds, and
\* by C1 a listen(p) then succeeds); on an empty slot it changes neither the
\* table nor the socket set.
C3_UnlistenReleases ==
    [][\A p \in Ports : unlisten(p) =>
          /\ tcp[p] # <<>> =>
                /\ sockets' = [h \in Handles |->
                       IF h \in QueueSet(p) THEN FreeSlot ELSE sockets[h]]
                /\ Registered' = Registered \ QueueSet(p)
                /\ last'.removed = Queue(p)
                /\ can_listen(p)'
                /\ \A q \in Ports \ {p} : tcp'[q] = tcp[q]
          /\ tcp[p] = <<>> => (tcp' = tcp /\ sockets' = sockets)]_vars

\* An unlisten released two or more queued handles.
C3_Witness ==
    /\ last.op = "unlisten"
    /\ Len(last.removed) >= 2
    /\ \A i \in 1..Len(last.removed) : last.removed[i] \notin Registered

\* C4 as stated: on a listening port accept returns EAGAIN and leaves the
\* backlog unchanged when no entry has progressed; otherwise it returns the
\* handle of the progressed entry of lowest position with its address
\* tuple, and the backlog loses exactly that handle.
C4_AcceptReturnsFirstProgressed ==
    [][\A p \in Ports : (accept(p) /\ tcp[p] # <<>>) =>
          IF Progressed(Queue(p)) = {}
          THEN last'.res = "EAGAIN" /\ tcp' = tcp
          ELSE LET idx == Min(Progressed(Queue(p)))
                   h == Queue(p)[idx]
               IN  /\ last'.res = "Ok"
                   /\ last'.handle = h
                   /\ last'.tuple = sockets[h].tuple
                   /\ last'.tuple # <<>>
                   /\ Len(Queue(p)') = Len(Queue(p)) - 1
                   /\ QueueSet(p)' = QueueSet(p) \ {h}]_vars

\* C4 amended: as C4, but when the chosen entry's socket is Closed the
\* call returns ECONNRESET and no handle; the backlog loses the chosen
\* handle in both cases.
C4_AcceptFirstProgressedOrReset ==
    [][\A p \in Ports : (accept(p) /\ tcp[p] # <<>>) =>
          IF Progressed(Queue(p)) = {}
          THEN last'.res = "EAGAIN" /\ tcp' = tcp /\ sockets' = sockets
          ELSE LET idx == Min(Progressed(Queue(p)))
                   h == Queue(p)[idx]
               IN  /\ last'.idx = idx
                   /\ IF sockets[h].state = "Closed"
                      THEN last'.res = "ECONNRESET" /\ last'.handle = 0
                      ELSE /\ last'.res = "Ok"
                           /\ last'.handle = h
                           /\ last'.tuple = sockets[h].tuple
                           /\ last'.tuple # <<>>
                   /\ Len(Queue(p)') = Len(Queue(p)) - 1
                   /\ QueueSet(p)' = QueueSet(p) \ {h}
                   /\ sockets' = sockets]_vars

\* An accept returned a handle that was not at the front, and other handles
\* stayed queued.
C4_Witness ==
    /\ last.op = "accept"
    /\ last.res = "Ok"
    /\ last.idx >= 2
    /\ last.tuple = sockets[last.handle].tuple
    /\ \E p \in Ports : Len(Queue(p)) >= 1

\* C5: can_accept(p) is EINVAL without a listener, else true iff some queued
\* socket is in a state other than Listen / SynReceived; accept(p) without
\* a listener is EINVAL; can_accept changes nothing.
C5_CanAccept ==
    [][\A p \in Ports :
          /\ can_accept(p) =>
                /\ last'.res =
                      IF tcp[p] = <<>> THEN "EINVAL"
                      ELSE IF \E h \in QueueSet(p) : ~Awaiting(h)
                           THEN "true" ELSE "false"
                /\ tcp' = tcp
                /\ sockets' = sockets
          /\ (accept(p) /\ tcp[p] = <<>>) =>
                (last'.res = "EINVAL" /\ tcp' = tcp /\ sockets' = sockets)]_vars

\* can_accept answered true on a full backlog in which exactly one socket
\* has progressed past the handshake.
C5_Witness ==
    /\ last.op = "can_accept"
    /\ last.res = "true"
    /\ \E p \in Ports :
          /\ Len(Queue(p)) = LISTEN_QUEUE_SIZE
          /\ Cardinality({h \in QueueSet(p) : ~Awaiting(h)}) = 1

\* C6: when the entry accept chooses is Closed, accept returns ECONNRESET
\* and the handle leaves the backlog; such a handle is never in a backlog
\* again and no accept ever returns it.
C6_ResetSurfacedOnce ==
    /\ [][\A p \in Ports :
            (accept(p) /\ tcp[p] # <<>> /\ Progressed(Queue(p)) # {}) =>
               LET h == Queue(p)[Min(Progressed(Queue(p)))]
               IN  sockets[h].state = "Closed" =>
                      /\ last'.res = "ECONNRESET"
                      /\ h \notin QueueSet(p)'
                      /\ h \in consumed']_vars
    /\ [](\A h \in consumed : \A p \in Ports : h \notin QueueSet(p))
    /\ []((last.op = "accept" /\ last.res = "Ok") => last.handle \notin consumed)

\* After a reset was surfaced, a later accept returned another handle.
C6_Witness ==
    /\ consumed # {}
    /\ last.op = "accept"
    /\ last.res = "Ok"

\* C7 as stated: the removal is a swap with the last element.
C7_SwapWithLast ==
    [][\A p \in Ports :
          (accept(p) /\ tcp[p] # <<>> /\ Progressed(Queue(p)) # {}) =>
             LET q == Queue(p)
                 idx == Min(Progressed(q))
             IN  /\ Len(Queue(p)') = Len(q) - 1
                 /\ \A i \in 1..(Len(q) - 1) :
                       Queue(p)'[i] = IF i = idx THEN q[Len(q)] ELSE q[i]]_vars

\* C7 amended: the removal is a swap with the first element: the former
\* first element takes the place of the chosen one, the front is dropped,
\* and every other entry moves one position towards the front.
C7_SwapWithFirst ==
    [][\A p \in Ports :
          (accept(p) /\ tcp[p] # <<>> /\ Progressed(Queue(p)) # {}) =>
             LET q == Queue(p)
                 idx == Min(Progressed(q))
             IN  /\ Len(Queue(p)') = Len(q) - 1
                 /\ idx > 1 => Queue(p)'[idx - 1] = q[1]
                 /\ \A i \in 2..Len(q) : i # idx => Queue(p)'[i - 1] = q[i]]_vars

\* An accept chose the third entry of a backlog of three.
C7_Witness ==
    /\ last.op = "accept"
    /\ last.idx = 3
    /\ \E p \in Ports : Len(Queue(p)) = 2

\* C8: a packet for an unoccupied slot, or for an entry bound to another
\* address, changes neither the table nor the socket set; a packet for an
\* entry bound to the wildcard or to the packet's own address passes the
\* filter: with room in the backlog, one socket is added and queued.
C8_AddressFilter ==
    [][\A dst \in IpEndpoints : incoming_tcp_packet(dst) =>
          LET slot == tcp[dst.port] IN
          /\ (slot = <<>> \/ (slot # <<>> /\
                 slot[1].listen_endpoint.addr \notin {<<>>, <<dst.addr>>}))
                => (tcp' = tcp /\ sockets' = sockets)
          /\ (slot # <<>> /\ slot[1].listen_endpoint.addr \in {<<>>, <<dst.addr>>}
                 /\ Len(Queue(dst.port)) < LISTEN_QUEUE_SIZE)
                => /\ Len(Queue(dst.port)') = Len(Queue(dst.port)) + 1
                   /\ Cardinality(Registered') = Cardinality(Registered) + 1]_vars

\* A packet was filtered out by an entry bound to one address, which has
\* admitted another packet before.
C8_Witness ==
    /\ last.op = "incoming_tcp_packet"
    /\ last.res = "filtered"
    /\ \E p \in Ports : tcp[p] # <<>> /\ tcp[p][1].listen_endpoint.addr # <<>>
                        /\ Len(Queue(p)) >= 1

\* C15: a packet for a port whose entry matches the destination address
\* and whose backlog holds fewer than LISTEN_QUEUE_SIZE handles adds exactly
\* one socket, in state Listen, to the socket set and appends its handle at
\* the tail of the backlog: the length grows by one and the handles queued
\* before keep their content and order; the other sockets and the other
\* slots stay as they were.
C15_AdmissionAppends ==
    [][\A dst \in IpEndpoints :
          (/\ incoming_tcp_packet(dst)
           /\ tcp[dst.port] # <<>>
           /\ tcp[dst.port][1].listen_endpoint.addr \in {<<>>, <<dst.addr>>}
           /\ Len(Queue(dst.port)) < LISTEN_QUEUE_SIZE)
          => \E h \in Handles \ Registered :
                /\ Registered' = Registered \cup {h}
                /\ sockets'[h].state = "Listen"
                /\ \A g \in Handles \ {h} : sockets'[g] = sockets[g]
                /\ Len(Queue(dst.port)') = Len(Queue(dst.port)) + 1
                /\ Queue(dst.port)'[Len(Queue(dst.port)) + 1] = h
                /\ \A i \in 1..Len(Queue(dst.port)) :
                      Queue(dst.port)'[i] = Queue(dst.port)[i]
                /\ tcp'[dst.port][1].listen_endpoint =
                      tcp[dst.port][1].listen_endpoint
                /\ \A q \in Ports \ {dst.port} : tcp'[q] = tcp[q]]_vars

\* A packet was admitted behind two queued handles, one of which has
\* completed its handshake: the new socket is the last of the backlog.
C15_Witness ==
    /\ last.op = "incoming_tcp_packet"
    /\ last.res = "queued"
    /\ \E p \in Ports :
          /\ Len(Queue(p)) = LISTEN_QUEUE_SIZE
          /\ sockets[Queue(p)[LISTEN_QUEUE_SIZE]].state = "Listen"
          /\ \E i \in 1..(LISTEN_QUEUE_SIZE - 1) :
                sockets[Queue(p)[i]].state = "Established"

Places(h) == {<<p, i>> \in Ports \X (1..LISTEN_QUEUE_SIZE) :
                 i <= Len(Queue(p)) /\ Queue(p)[i] = h}

\* C19: every socket in the socket set is either queued, at exactly one
\* place of exactly one backlog, or owned by the caller a successful accept
\* handed it to; no socket stays in the socket set while it is neither in a
\* backlog nor owned by an acceptor, also after accept returned ECONNRESET.
C19_SocketConservation ==
    \A h \in Registered :
        \/ Cardinality(Places(h)) = 1 /\ h \notin accepted
        \/ Places(h) = {} /\ h \in accepted

(***************************************************************************)
(* Properties of the timers.                                               *)
(***************************************************************************)
\* The registrations of task t in the queue of core c.
Registrations(c, t) == {e \in TIMER_LIST[c] : e[1] = t}

\* The number of unblock_task calls for task t in a drain's log.
Wakeups(woken, t) == Cardinality({i \in 1..Len(woken) : woken[i][1] = t})

C10_DrainsReachedDeadlines ==
    [][\A c \in Cores : check_events(c) =>
          /\ Range(tlast'.woken) = {e \in TIMER_LIST[c] : e[2] <= wall}
          /\ Len(tlast'.woken) = Cardinality(Range(tlast'.woken))
          /\ TIMER_LIST'[c] = {e \in TIMER_LIST[c] : e[2] > wall}]_vars

\* C11: clear_alarm_wakeup(T) on a core removes T's registration from that
\* core's queue if there is one and changes nothing if there is none; every
\* other task's registration keeps its identity and deadline; the call
\* unblocks no task.
C11_ClearRemovesOnlyTheTask ==
    [][\A c \in Cores, t \in Tasks : clear_alarm_wakeup(c, t) =>
          /\ Registrations(c, t)' = {}
          /\ TIMER_LIST'[c] = TIMER_LIST[c] \ Registrations(c, t)
          /\ Registrations(c, t) = {} => TIMER_LIST' = TIMER_LIST
          /\ \A u \in Tasks \ {t} : Registrations(c, u)' = Registrations(c, u)
          /\ tlast'.woken = <<>>]_vars

\* A task was disarmed on a core where another task stays registered.
C11_Witness ==
    /\ tlast.op = "clear_alarm_wakeup"
    /\ Registrations(tlast.core, tlast.task) = {}
    /\ \E u \in Tasks \ {tlast.task} : Registrations(tlast.core, u) # {}

\* C13: once clear_alarm_wakeup(T) has been called, on whichever core is
\* current, no later check_events on any core unblocks T unless T has been
\* armed again in between.
C13_NoStaleWakeup ==
    [][\A c \in Cores : check_events(c) =>
          \A t \in disarmed : Wakeups(tlast'.woken, t) = 0]_vars

\* C14: set_alarm_wakeup, clear_alarm_wakeup and check_events called on
\* core c change only core c's queue, and what they do is determined by
\* that queue: the queue of every other core stays as it was, and a drain
\* unblocks only tasks registered on its own core.
C14_PerCoreIsolation ==
    [][\A c \in Cores :
          (\/ \E d \in Times, t \in Tasks : set_alarm_wakeup(c, d, t)
           \/ \E t \in Tasks : clear_alarm_wakeup(c, t)
           \/ check_events(c))
          => /\ \A o \in Cores \ {c} : TIMER_LIST'[o] = TIMER_LIST[o]
             /\ Range(tlast'.woken) \subseteq TIMER_LIST[c]]_vars

\* A drain unblocked a task on its core while an entry whose deadline has
\* passed as well stays in the queue of another core.
C14_Witness ==
    /\ tlast.op = "check_events"
    /\ tlast.woken # <<>>
    /\ \E o \in Cores \ {tlast.core} :
          \E e \in TIMER_LIST[o] : expired(e[2], wall)

\* C16: within one check_events call the tasks are unblocked in
\* non-decreasing order of deadline, and no entry is popped while an entry
\* with a strictly earlier deadline is still in the queue.
C16_DrainInDeadlineOrder ==
    [][\A c \in Cores : check_events(c) =>
          LET w == tlast'.woken IN
          /\ \A i \in 1..Len(w) : \A j \in 1..Len(w) :
                i < j => w[i][2] <= w[j][2]
          /\ \A i \in 1..Len(w) :
                \A e \in TIMER_LIST[c] \ {w[k] : k \in 1..(i - 1)} :
                   w[i][2] <= e[2]]_vars

\* A drain unblocked two tasks with different deadlines.
C16_Witness ==
    /\ tlast.op = "check_events"
    /\ Len(tlast.woken) >= 2
    /\ tlast.woken[1][2] < tlast.woken[2][2]

\* The last call was a drain on core c that unblocked task t.
UnblockedBy(c, t) ==
    /\ tlast.op = "check_events"
    /\ tlast.core = c
    /\ Wakeups(tlast.woken, t) > 0

\* The last call disarmed task t on core c or armed it there again.
Rearmed(c, t) ==
    /\ tlast.op \in {"clear_alarm_wakeup", "set_alarm_wakeup"}
    /\ tlast.core = c
    /\ tlast.task = t

\* C17: if the wall clock keeps advancing and the tick of core c keeps
\* calling check_events, a task registered on core c with a deadline the
\* clock goes past is eventually unblocked by a drain of core c, unless its
\* registration is disarmed (or replaced by another arm) on core c first:
\* no such registration stays in the queue for ever, and a registration
\* leaves the queue only by one of these three calls.
C17_ArmedEventuallyUnblocked ==
    /\ \A c \in Cores, t \in Tasks, d \in Times \ {MaxTime} :
          []<>(<<t, d>> \notin TIMER_LIST[c])
    /\ [][\A c \in Cores, t \in Tasks, d \in Times :
            (<<t, d>> \in TIMER_LIST[c] /\ <<t, d>> \notin TIMER_LIST'[c])
               => (UnblockedBy(c, t)' \/ Rearmed(c, t)')]_vars

\* A drain unblocked a task whose deadline the clock had to reach first.
C17_Witness ==
    /\ tlast.op = "check_events"
    /\ wall = MaxTime
    /\ \E i \in 1..Len(tlast.woken) : tlast.woken[i][2] = MaxTime - 1

\* C20: the queue of a core never holds more than one entry for a task;
\* set_alarm_wakeup for a task that has an entry on the current core
\* replaces its deadline, be the new one earlier or later, and adds no
\* second entry; for a task without an entry it adds one.
C20_OneEntryPerTask ==
    /\ [](\A c \in Cores, t \in Tasks : Cardinality(Registrations(c, t)) <= 1)
    /\ [][\A c \in Cores, t \in Tasks, d \in Times :
            set_alarm_wakeup(c, d, t) =>
               /\ Registrations(c, t)' = {<<t, d>>}
               /\ Cardinality(TIMER_LIST'[c]) = Cardinality(TIMER_LIST[c]) +
                     (IF Registrations(c, t) = {} THEN 1 ELSE 0)]_vars

\* A task was armed again, with a later deadline, on a core where another
\* task is registered: the queue holds one entry for each.
C20_Witness ==
    /\ tlast.op = "set_alarm_wakeup"
    /\ superseded[tlast.core][tlast.task] # <<>>
    /\ Registrations(tlast.core, tlast.task) = {<<tlast.task, tlast.deadline>>}
    /\ Cardinality(TIMER_LIST[tlast.core]) = NumTasks

(***************************************************************************)
(* Properties of the locking.                                              *)
(***************************************************************************)
\* Thread a owns the SocketSet and waits for a port lock that thread b
\* holds, while b waits for the SocketSet.
LockCycle(a, b) ==
    /\ socket_set_lock = a
    /\ thread[a].pc = "lock_port"
    /\ tcp_lock[thread[a].port] = b
    /\ thread[b].pc = "lock_socket_set"

\* C12: no reachable state has two threads each holding one of the two
\* locks (a port lock, the SocketSet) and waiting for the other, when
\* incoming_tcp_packet runs concurrently with accept, can_accept or
\* unlisten on the same port.
C12_NoLockCycle ==
    \A a \in Threads : \A b \in Threads \ {a} : ~LockCycle(a, b)

====
